---- MODULE Spec2Model ----
(***************************************************************************)
(* Model of the AI processor of internal/processor (ai_processor.go):      *)
(* NewAIProcessor, the token-bucket RateLimiter, ProcessBatch with its     *)
(* worker goroutines and processItemWithRetry.                             *)
(*                                                                         *)
(* Go slices are 0-based; items and results are functions over 0..N-1.     *)
(* Wall-clock fields (Duration, Timestamp) and the Input copy of the item  *)
(* are not modelled: no branch of the code reads them.                     *)
(***************************************************************************)
EXTENDS Integers, FiniteSets, Sequences, TLC

\* ---- bounds of the model ------------------------------------------------
MaxItems == 2
MaxBatchSize == 2
MaxWorkers == 2
MaxRate == 2
MaxRetriesArg == 2
\* the rate limiter on its own: clock steps per refill interval, clock steps
\* followed, goroutines calling Wait, acquisitions followed
SlicesPerTick == 2
MaxClock == 6
MaxCallers == 2
MaxAcquisitions == 4
MaxAttemptNo == 64
MaxDelayArg == 3
\* ProcessSingleWithWeek on its own: calls made one after the other
MaxSingleCalls == 2
\* the TokenTracker on its own: goroutines calling its methods, one call each
MaxClients == 3
\* calculateSummary on its own: length of the outcome array, Retries of an
\* outcome, calls on the same array
MaxOutcomes == 3
MaxRetriesSeen == 2
MaxRecomputations == 2
\* runAutomatedPipeline on its own: weeks found in the database
MaxWeeks == 3
\* NewAIProcessor on its own: every setting is drawn from -MaxSetting..MaxSetting
MaxSetting == 1

\* ---- program constants --------------------------------------------------
\* time.Duration values are counted in seconds
DefaultMaxRetries == 3
DefaultInitialRetryDelay == 2
DefaultMaxRetryDelay == 10
DefaultTimeout == 60
DefaultBatchSize == 10
DefaultMaxConcurrent == 5
DefaultRateLimitPerMin == 60

\* ---- values -------------------------------------------------------------
NoError == "nil"
CtxCanceled == "context canceled"
EmptyPromptError == "empty prompt generated"
\* errors callOpenAI returns on its failure branches
RequestFailed == "API request failed"
StatusError == "API returned status"
\* error of httpClient.Do when the request's context is cancelled
RequestFailedCanceled == "API request failed: context canceled"
TransportErrors == {RequestFailed, StatusError}
\* every error return of callOpenAI
MarshalFailed == "failed to marshal request"
CreateRequestFailed == "failed to create request"
ReadFailed == "failed to read response"
ParseFailed == "failed to parse response"
APIError == "API error"
NoChoices == "no choices in response"
FailureClasses ==
  {MarshalFailed, CreateRequestFailed, RequestFailed, ReadFailed, ParseFailed, APIError,
   StatusError, NoChoices}

\* what promptTemplate(item) renders to: the empty string or a prompt
Prompts == {"", "prompt"}

MkUsage(p, c) == [PromptTokens |-> p, CompletionTokens |-> c, TotalTokens |-> p + c]
ZeroUsage == MkUsage(0, 0)
\* successful responses of the API: content of choices[0] and usage
Responses == {[content |-> "reportA", usage |-> MkUsage(2, 1)],
              [content |-> "reportB", usage |-> MkUsage(1, 3)]}

\* the zero value of ProcessResult, as make([]ProcessResult, n) fills it
ZeroResult ==
  [Index |-> 0, Output |-> "", Success |-> FALSE, Error |-> NoError,
   Retries |-> 0, TokenUsage |-> ZeroUsage]

VARIABLES
  passed,      \* the Config handed to NewAIProcessor
  config,      \* ap.config, after the defaults
  items,       \* promptTemplate(items[i]) for each index
  results,     \* the results slice of ProcessBatch
  cancelled,   \* ctx.Err() != nil
  tokens,      \* len(rl.tokens)
  semaphore,   \* len(semaphore)
  wg,          \* the WaitGroup counter
  main,        \* ProcessBatch's own goroutine: pc, batchStart, i
  worker,      \* per item goroutine: pc, attempt, retryCount, lastError
  hist,        \* per item history: transport calls, backoff waits, tokens taken, writes
  rl,          \* the RateLimiter studied on its own: construction, clock, callers
  arg,         \* the arguments of a function studied on its own
  out,         \* and its result
  tracker,     \* ap.tokenTracker: usageByWeek, totalUsage and the state of mu
  single,      \* the goroutine calling ProcessSingleWithWeek, with its history
  clients      \* goroutines calling the TokenTracker's methods directly

\* the variables a ProcessBatch run leaves alone
aux == <<rl, arg, out, tracker, single, clients>>

vars == <<passed, config, items, results, cancelled, tokens, semaphore, wg, main, worker, hist,
          rl, arg, out, tracker, single, clients>>

N == Cardinality(DOMAIN items)
Indices == DOMAIN items

\* ---- NewAIProcessor -----------------------------------------------------
NewAIProcessorKeepsZeroRate(c) ==
  [c EXCEPT
     !.MaxRetries = IF c.MaxRetries = 0 THEN DefaultMaxRetries ELSE c.MaxRetries,
     !.InitialRetryDelay =
        IF c.InitialRetryDelay = 0 THEN DefaultInitialRetryDelay ELSE c.InitialRetryDelay,
     !.MaxRetryDelay = IF c.MaxRetryDelay = 0 THEN DefaultMaxRetryDelay ELSE c.MaxRetryDelay,
     !.Timeout = IF c.Timeout = 0 THEN DefaultTimeout ELSE c.Timeout,
     !.BatchSize = IF c.BatchSize = 0 THEN DefaultBatchSize ELSE c.BatchSize,
     !.MaxConcurrent = IF c.MaxConcurrent = 0 THEN DefaultMaxConcurrent ELSE c.MaxConcurrent]

NewAIProcessorDefaultsNegative(c) ==
  [c EXCEPT
     !.MaxRetries = IF c.MaxRetries <= 0 THEN DefaultMaxRetries ELSE c.MaxRetries,
     !.InitialRetryDelay =
        IF c.InitialRetryDelay <= 0 THEN DefaultInitialRetryDelay ELSE c.InitialRetryDelay,
     !.MaxRetryDelay = IF c.MaxRetryDelay <= 0 THEN DefaultMaxRetryDelay ELSE c.MaxRetryDelay,
     !.Timeout = IF c.Timeout <= 0 THEN DefaultTimeout ELSE c.Timeout,
     !.BatchSize = IF c.BatchSize <= 0 THEN DefaultBatchSize ELSE c.BatchSize,
     !.MaxConcurrent = IF c.MaxConcurrent <= 0 THEN DefaultMaxConcurrent ELSE c.MaxConcurrent,
     !.RateLimitPerMin =
        IF c.RateLimitPerMin <= 0 THEN DefaultRateLimitPerMin ELSE c.RateLimitPerMin]

\* Set defaults if not provided: every zero field gets its default
NewAIProcessor(c) ==
  [c EXCEPT
     !.MaxRetries = IF c.MaxRetries = 0 THEN DefaultMaxRetries ELSE c.MaxRetries,
     !.InitialRetryDelay =
        IF c.InitialRetryDelay = 0 THEN DefaultInitialRetryDelay ELSE c.InitialRetryDelay,
     !.MaxRetryDelay = IF c.MaxRetryDelay = 0 THEN DefaultMaxRetryDelay ELSE c.MaxRetryDelay,
     !.Timeout = IF c.Timeout = 0 THEN DefaultTimeout ELSE c.Timeout,
     !.BatchSize = IF c.BatchSize = 0 THEN DefaultBatchSize ELSE c.BatchSize,
     !.MaxConcurrent = IF c.MaxConcurrent = 0 THEN DefaultMaxConcurrent ELSE c.MaxConcurrent,
     !.RateLimitPerMin =
        IF c.RateLimitPerMin = 0 THEN DefaultRateLimitPerMin ELSE c.RateLimitPerMin]

\* ---- the ProcessResult literals of the code -----------------------------
\* ProcessBatch, ctx.Err() != nil before processItemWithRetry
NotStartedResult(index) ==
  [Index |-> index, Output |-> "", Success |-> FALSE, Error |-> CtxCanceled,
   Retries |-> 0, TokenUsage |-> ZeroUsage]

CancelledResultNoRetries(index, retryCount) ==
  [Index |-> index, Output |-> "", Success |-> FALSE, Error |-> CtxCanceled,
   Retries |-> 0, TokenUsage |-> ZeroUsage]

\* processItemWithRetry, ctx.Err() != nil at the top of the loop and
\* <-ctx.Done() during the backoff wait
CancelledResult(index, retryCount) ==
  [Index |-> index, Output |-> "", Success |-> FALSE, Error |-> CtxCanceled,
   Retries |-> retryCount, TokenUsage |-> ZeroUsage]

\* processItemWithRetry, prompt == ""
EmptyPromptResult(index) ==
  [Index |-> index, Output |-> "", Success |-> FALSE, Error |-> EmptyPromptError,
   Retries |-> 0, TokenUsage |-> ZeroUsage]

SuccessResultNoIndex(index, retryCount, resp) ==
  [Index |-> 0, Output |-> resp.content, Success |-> TRUE, Error |-> NoError,
   Retries |-> retryCount, TokenUsage |-> resp.usage]

SuccessResultCountsAttempt(index, retryCount, resp) ==
  [Index |-> index, Output |-> resp.content, Success |-> TRUE, Error |-> NoError,
   Retries |-> retryCount + 1, TokenUsage |-> resp.usage]

\* processItemWithRetry, err == nil
SuccessResult(index, retryCount, resp) ==
  [Index |-> index, Output |-> resp.content, Success |-> TRUE, Error |-> NoError,
   Retries |-> retryCount, TokenUsage |-> resp.usage]

ExhaustedResultKeepsZeroError(index, retryCount, lastError) ==
  [Index |-> index, Output |-> "", Success |-> FALSE, Error |-> NoError,
   Retries |-> retryCount, TokenUsage |-> ZeroUsage]

\* processItemWithRetry, after the loop
ExhaustedResult(index, retryCount, lastError) ==
  [Index |-> index, Output |-> "", Success |-> FALSE, Error |-> lastError,
   Retries |-> retryCount, TokenUsage |-> ZeroUsage]

\* ---- initial state ------------------------------------------------------
IdleWorker == [pc |-> "idle", attempt |-> 0, retryCount |-> 0, lastError |-> NoError]
\* the goroutine after wg.Done(); before it, "written" (results[index] is
\* written) and "released" (the slot is given back)
DoneWorker == [pc |-> "done", attempt |-> 0, retryCount |-> 0, lastError |-> NoError]
\* calls: callOpenAI invocations; fails: those that returned an error; err: the
\* last such error; resp: the response of the successful call; waits: backoff
\* waits entered; taken: rate-limiter tokens taken; writes: writes of results[i];
\* exit: the return statement the item left through
NoHistory ==
  [calls |-> 0, fails |-> 0, err |-> NoError, resp |-> "none", waits |-> 0,
   taken |-> 0, writes |-> 0, exit |-> "none"]

\* rl, arg and out while no rate limiter or function is studied on its own
NoLimiter == [pc |-> "none"]
NoCall == [fn |-> "none"]

\* the week labels usage is recorded under (ProcessSingle records under "unknown")
WeekLabels == {"2024-W01", "unknown"}

\* NewTokenTracker: an empty usageByWeek (a label without entry reads as the
\* nil slice), the zero totalUsage; mu is unlocked: no writer, no readers
NewTokenTracker ==
  [usageByWeek |-> [l \in WeekLabels |-> <<>>], totalUsage |-> ZeroUsage,
   writer |-> 0, readers |-> 0]

\* single and clients while ProcessSingleWithWeek or the tracker are not studied
NoSingle == [pc |-> "none"]
NoClients == <<>>

\* The inputs of one run: the items with what they render to, and the Config.
\* The retry setting is varied on runs of at most one item; runs with more
\* items are made with MaxRetries = 1 (two attempts per item), and runs with
\* more than two items with a rate of 1 and at most two items that render to
\* a prompt.
Init ==
  /\ \E n \in 0..MaxItems : items \in [0..(n - 1) -> Prompts]
  /\ \E b \in 1..MaxBatchSize, c \in 1..MaxWorkers, r \in 1..MaxRate, m \in 0..MaxRetriesArg :
       passed = [BatchSize |-> b, MaxConcurrent |-> c, RateLimitPerMin |-> r,
                 MaxRetries |-> m, InitialRetryDelay |-> 0, MaxRetryDelay |-> 0,
                 Timeout |-> 0, ExponentialBackoff |-> TRUE]
  /\ (N <= 1 \/ passed.MaxRetries = 1)
  /\ (N <= 2 \/ (/\ passed.RateLimitPerMin = 1
                  /\ Cardinality({i \in DOMAIN items : items[i] # ""}) <= 2))
  /\ config = NewAIProcessor(passed)
  /\ results = [i \in DOMAIN items |-> ZeroResult]
  /\ cancelled = FALSE
  /\ tokens = config.RateLimitPerMin
  /\ semaphore = 0
  /\ wg = 0
  /\ main = [pc |-> "batch", batchStart |-> 0, i |-> 0]
  /\ worker = [i \in DOMAIN items |-> IdleWorker]
  /\ hist = [i \in DOMAIN items |-> NoHistory]
  /\ rl = NoLimiter
  /\ arg = NoCall
  /\ out = NoCall
  /\ tracker = NewTokenTracker
  /\ single = NoSingle
  /\ clients = NoClients

\* ---- ProcessBatch: the calling goroutine --------------------------------
\* batchEnd of the batch that starts at batchStart
BatchEnd(batchStart) ==
  IF batchStart + config.BatchSize > N THEN N ELSE batchStart + config.BatchSize

\* for batchStart := 0; batchStart < len(items); batchStart += BatchSize
NextBatch ==
  /\ main.pc = "batch"
  /\ main' = IF main.batchStart < N
               THEN [main EXCEPT !.pc = "spawn", !.i = main.batchStart]
               ELSE [main EXCEPT !.pc = "summary"]
  /\ UNCHANGED <<aux, passed, config, items, results, cancelled, tokens, semaphore, wg, worker, hist>>

\* for i := batchStart; i < batchEnd; i++ { wg.Add(1); go func(index, item) }
SpawnWorker ==
  /\ main.pc = "spawn"
  /\ IF main.i < BatchEnd(main.batchStart)
       THEN /\ wg' = wg + 1
            /\ worker' = [worker EXCEPT ![main.i].pc = "spawned"]
            /\ main' = [main EXCEPT !.i = main.i + 1]
       ELSE /\ main' = [main EXCEPT !.pc = "wait"]
            /\ UNCHANGED <<wg, worker>>
  /\ UNCHANGED <<aux, passed, config, items, results, cancelled, tokens, semaphore, hist>>

WaitReturnsAtOnce == TRUE

\* wg.Wait() returns when the counter is zero
WaitReturns == wg = 0

BatchBarrier ==
  /\ main.pc = "wait"
  /\ WaitReturns
  /\ main' = [main EXCEPT !.pc = "batch", !.batchStart = main.batchStart + config.BatchSize]
  /\ UNCHANGED <<aux, passed, config, items, results, cancelled, tokens, semaphore, wg, worker, hist>>

\* the summary statistics: duration / time.Duration(len(items)) is an integer
\* division, a run-time panic when len(items) is 0
Summary ==
  /\ main.pc = "summary"
  /\ main' = [main EXCEPT !.pc = IF N = 0 THEN "panicked" ELSE "returned"]
  /\ UNCHANGED <<aux, passed, config, items, results, cancelled, tokens, semaphore, wg, worker, hist>>

\* ---- ProcessBatch: the goroutine of one item ----------------------------
SlotAlwaysFree == TRUE

\* semaphore <- struct{}{} blocks while the channel is full
SlotFree == semaphore < config.MaxConcurrent

AcquireSlot(i) ==
  /\ worker[i].pc = "spawned"
  /\ SlotFree
  /\ semaphore' = semaphore + 1
  /\ worker' = [worker EXCEPT ![i].pc = "check"]
  /\ UNCHANGED <<aux, passed, config, items, results, cancelled, tokens, wg, main, hist>>

ReturnIntoFirstSlot(i, res) ==
  /\ results' = [results EXCEPT ![0] = res]
  /\ worker' = [worker EXCEPT ![i] = [DoneWorker EXCEPT !.pc = "written"]]
  /\ UNCHANGED <<semaphore, wg>>

\* results[index] = res: the goroutine has its outcome and is about to return;
\* the progress update under progressMu changes nothing followed here and is
\* part of the step that follows
Return(i, res) ==
  /\ results' = [results EXCEPT ![i] = res]
  /\ worker' = [worker EXCEPT ![i] = [DoneWorker EXCEPT !.pc = "written"]]
  /\ UNCHANGED <<semaphore, wg>>

\* the deferred calls run last in, first out: defer func() { <-semaphore }()
ReleaseSlot(i) ==
  /\ worker[i].pc = "written"
  /\ semaphore' = semaphore - 1
  /\ worker' = [worker EXCEPT ![i] = [DoneWorker EXCEPT !.pc = "released"]]
  /\ UNCHANGED <<aux, passed, config, items, results, cancelled, tokens, wg, main, hist>>

\* defer wg.Done()
WgDone(i) ==
  /\ worker[i].pc = "released"
  /\ wg' = wg - 1
  /\ worker' = [worker EXCEPT ![i] = DoneWorker]
  /\ UNCHANGED <<aux, passed, config, items, results, cancelled, tokens, semaphore, main, hist>>

Wrote(i, exit) == [hist EXCEPT ![i].writes = hist[i].writes + 1, ![i].exit = exit]

CtxErrNever == FALSE

\* ctx.Err() != nil, in ProcessBatch's goroutine and at the top of the retry loop
CtxErr == cancelled

CheckContext(i) ==
  /\ worker[i].pc = "check"
  /\ IF CtxErr
       THEN /\ Return(i, NotStartedResult(i))
            /\ hist' = Wrote(i, "notstarted")
       ELSE /\ worker' = [worker EXCEPT ![i] = [pc |-> "loop", attempt |-> 0,
                                                 retryCount |-> 0, lastError |-> NoError]]
            /\ UNCHANGED <<results, semaphore, wg, hist>>
  /\ UNCHANGED <<aux, passed, config, items, cancelled, tokens, main>>

\* ---- processItemWithRetry -----------------------------------------------
LoopConditionFirstAttemptOnly(attempt) == attempt <= 0

\* for attempt := 0; attempt <= MaxRetries; attempt++ { if ctx.Err() != nil ...
LoopCondition(attempt) == attempt <= config.MaxRetries

LoopTop(i) ==
  /\ worker[i].pc = "loop"
  /\ IF ~LoopCondition(worker[i].attempt)
       THEN /\ Return(i, ExhaustedResult(i, worker[i].retryCount, worker[i].lastError))
            /\ hist' = Wrote(i, "exhausted")
       ELSE IF CtxErr
         THEN /\ Return(i, CancelledResult(i, worker[i].retryCount))
              /\ hist' = Wrote(i, "cancelled")
         ELSE /\ worker' = [worker EXCEPT ![i].pc = "ratewait"]
              /\ UNCHANGED <<results, semaphore, wg, hist>>
  /\ UNCHANGED <<aux, passed, config, items, cancelled, tokens, main>>

IsEmptyPromptNever(prompt) == FALSE

\* if prompt == ""
IsEmptyPrompt(prompt) == prompt = ""

TokenAlwaysAvailable == TRUE

\* <-rl.tokens blocks while the channel is empty
TokenAvailable == tokens > 0

\* ap.rateLimiter.Wait() takes one token; then prompt := promptTemplate(item),
\* the empty-prompt return, or the start of callOpenAI
RateWait(i) ==
  /\ worker[i].pc = "ratewait"
  /\ TokenAvailable
  /\ tokens' = tokens - 1
  /\ IF IsEmptyPrompt(items[i])
       THEN /\ Return(i, EmptyPromptResult(i))
            /\ hist' = [hist EXCEPT ![i].taken = hist[i].taken + 1,
                                    ![i].writes = hist[i].writes + 1,
                                    ![i].exit = "empty"]
       ELSE /\ worker' = [worker EXCEPT ![i].pc = "calling"]
            /\ hist' = [hist EXCEPT ![i].taken = hist[i].taken + 1,
                                    ![i].calls = hist[i].calls + 1]
            /\ UNCHANGED <<results, semaphore, wg>>
  /\ UNCHANGED <<aux, passed, config, items, cancelled, main>>

\* callOpenAI returns (content, usage, nil)
CallSucceeds(i) ==
  /\ worker[i].pc = "calling"
  /\ \E resp \in Responses :
       /\ Return(i, SuccessResult(i, worker[i].retryCount, resp))
       /\ hist' = [hist EXCEPT ![i].writes = hist[i].writes + 1, ![i].resp = resp,
                               ![i].exit = "success"]
  /\ UNCHANGED <<aux, passed, config, items, cancelled, tokens, main>>

WaitsAfterLastAttempt(attempt) == attempt <= config.MaxRetries

\* if attempt < MaxRetries: the backoff wait follows the failure
WaitsBeforeRetry(attempt) == attempt < config.MaxRetries

\* callOpenAI returns an error, one of errs or that of a cancelled request:
\* lastError = err; retryCount++
CallFailsWith(i, errs) ==
  /\ worker[i].pc = "calling"
  /\ \E err \in errs \cup (IF cancelled THEN {RequestFailedCanceled} ELSE {}) :
       IF WaitsBeforeRetry(worker[i].attempt)
         THEN /\ worker' = [worker EXCEPT ![i].pc = "backoff", ![i].lastError = err,
                                          ![i].retryCount = worker[i].retryCount + 1]
              /\ hist' = [hist EXCEPT ![i].waits = hist[i].waits + 1,
                                      ![i].fails = hist[i].fails + 1, ![i].err = err]
         ELSE /\ worker' = [worker EXCEPT ![i].pc = "loop", ![i].lastError = err,
                                          ![i].retryCount = worker[i].retryCount + 1,
                                          ![i].attempt = worker[i].attempt + 1]
              /\ hist' = [hist EXCEPT ![i].fails = hist[i].fails + 1, ![i].err = err]
  /\ UNCHANGED <<aux, passed, config, items, results, cancelled, tokens, semaphore, wg, main>>

\* the failures followed in a ProcessBatch run: a failed request, a bad status
CallFails(i) == CallFailsWith(i, TransportErrors)

\* select: case <-time.After(delay), taken when the timer fires first
BackoffElapsed(i) ==
  /\ worker[i].pc = "backoff"
  /\ ~cancelled
  /\ worker' = [worker EXCEPT ![i].pc = "loop", ![i].attempt = worker[i].attempt + 1]
  /\ UNCHANGED <<aux, passed, config, items, results, cancelled, tokens, semaphore, wg, main, hist>>

\* select: case <-ctx.Done()
BackoffCancelled(i) ==
  /\ worker[i].pc = "backoff"
  /\ cancelled
  /\ Return(i, CancelledResult(i, worker[i].retryCount))
  /\ hist' = Wrote(i, "cancelledwait")
  /\ UNCHANGED <<aux, passed, config, items, cancelled, tokens, main>>

\* ---- environment --------------------------------------------------------
\* cancel() of the caller's context (main.go, on SIGINT/SIGTERM); followed
\* until ProcessBatch has returned or panicked
Cancel ==
  /\ ~cancelled
  /\ main.pc \notin {"returned", "panicked"}
  /\ cancelled' = TRUE
  /\ UNCHANGED <<aux, passed, config, items, results, tokens, semaphore, wg, main, worker, hist>>

RefillTickUnbounded(t, capacity) == t + 1

\* select { case rl.tokens <- struct{}{}: default: } on a channel of the given
\* capacity holding t tokens
RefillTick(t, capacity) == IF t < capacity THEN t + 1 ELSE t

\* RateLimiter.refill: one tick; the token is dropped when the channel is full;
\* followed until ProcessBatch has returned or panicked
Refill ==
  /\ main.pc \notin {"returned", "panicked"}
  /\ tokens' = RefillTick(tokens, config.RateLimitPerMin)
  /\ UNCHANGED <<aux, passed, config, items, results, cancelled, semaphore, wg, main, worker, hist>>

Next ==
  \/ NextBatch
  \/ SpawnWorker
  \/ BatchBarrier
  \/ Summary
  \/ \E i \in Indices : AcquireSlot(i)
  \/ \E i \in Indices : CheckContext(i)
  \/ \E i \in Indices : LoopTop(i)
  \/ \E i \in Indices : RateWait(i)
  \/ \E i \in Indices : CallSucceeds(i)
  \/ \E i \in Indices : CallFails(i)
  \/ \E i \in Indices : BackoffElapsed(i)
  \/ \E i \in Indices : BackoffCancelled(i)
  \/ \E i \in Indices : ReleaseSlot(i)
  \/ \E i \in Indices : WgDone(i)
  \/ Cancel
  \/ Refill

Spec == Init /\ [][Next]_vars

\* ---- vocabulary of the properties ---------------------------------------
Returned == main.pc = "returned"
\* the goroutine of item i has returned: wg.Done() has run
Finished(i) == worker[i].pc = "done"
\* item i has its terminal outcome: results[i] is written
Terminal(i) == worker[i].pc \in {"written", "released", "done"}
\* between the slot acquisition and the release of the slot
InFlight(i) == worker[i].pc \in {"check", "loop", "ratewait", "calling", "backoff", "written"}
\* has a goroutine, a token or a transport call
Started(i) == worker[i].pc # "idle" \/ hist[i].taken > 0 \/ hist[i].calls > 0
BatchOf(i) == i \div config.BatchSize

\* C1: when ProcessBatch returns, results has one slot per input item, every
\* slot was written exactly once by a terminated worker, and results[i].Index = i
C1_IndexAligned ==
  Returned =>
    /\ DOMAIN results = 0..(N - 1)
    /\ \A i \in Indices :
         /\ Terminal(i)
         /\ hist[i].writes = 1
         /\ results[i].Index = i

\* two items of one batch, both terminal, the later index a success
C1_Witness ==
  /\ Returned
  /\ N = 2
  /\ config.BatchSize = 2
  /\ results[1].Success
  /\ results[1].Index = 1
  /\ hist[0].exit = "exhausted"

\* C2: no item of a later batch is started before every item of every earlier
\* batch is terminal (its goroutine has even returned), and items are started
\* in increasing index order
C2_BatchBarrier ==
  \A i, j \in Indices :
    /\ (BatchOf(i) < BatchOf(j) /\ Started(j)) => Finished(i)
    /\ (i < j /\ Started(j)) => Started(i)

\* an item of the second batch is in its transport call
C2_Witness ==
  \E i, j \in Indices :
    /\ BatchOf(i) < BatchOf(j)
    /\ worker[j].pc = "calling"
    /\ Finished(i)

\* C3: at most MaxConcurrent items are between start and terminal outcome
\* (counted until the slot is given back)
C3_BoundedInFlight ==
  Cardinality({i \in Indices : InFlight(i)}) <= config.MaxConcurrent

\* one item in its backoff wait holds the only slot, another of the same
\* batch is blocked on the semaphore
C3_Witness ==
  /\ config.MaxConcurrent = 1
  /\ config.BatchSize = 2
  /\ \E i, j \in Indices :
       /\ worker[i].pc = "backoff"
       /\ worker[j].pc = "spawned"

\* C4: the Retries of a terminal outcome never exceeds the configured maxRetries
C4_RetriesAtMostMax ==
  \A i \in Indices : Terminal(i) => results[i].Retries <= config.MaxRetries

\* C5 as stated: at most r backoff waits, r being the MaxRetries passed to
\* NewAIProcessor, r = 0 included
C5_WaitsAtMostPassed ==
  \A i \in Indices : hist[i].waits <= passed.MaxRetries

\* C5 as amended: at most r backoff waits, r being the MaxRetries the processor
\* holds after NewAIProcessor's defaults (a passed 0 is replaced by 3)
C5_WaitsAtMostEffective ==
  \A i \in Indices : hist[i].waits <= config.MaxRetries

\* an item left through exhaustion after MaxRetries waits, for a passed 0
C5_Witness ==
  \E i \in Indices :
    /\ Terminal(i)
    /\ passed.MaxRetries = 0
    /\ hist[i].waits = config.MaxRetries
    /\ hist[i].exit = "exhausted"

\* C6: an item all of whose transport calls failed, with no cancellation, ends
\* with Success = false, Retries = maxRetries and the error of the last attempt
C6_ExhaustionOutcome ==
  \A i \in Indices :
    (Terminal(i) /\ ~cancelled /\ hist[i].calls > 0 /\ hist[i].fails = hist[i].calls) =>
      /\ ~results[i].Success
      /\ results[i].Retries = config.MaxRetries
      /\ results[i].Error = hist[i].err

\* C7: k failed calls followed by a successful one, k < maxRetries, no
\* cancellation: Success, Retries = k, the response's output and usage, no error
C7_SuccessAfterRetries ==
  \A i \in Indices :
    (/\ Terminal(i)
     /\ ~cancelled
     /\ hist[i].calls = hist[i].fails + 1
     /\ hist[i].fails < config.MaxRetries) =>
      /\ hist[i].resp \in Responses
      /\ results[i].Success
      /\ results[i].Retries = hist[i].fails
      /\ results[i].Output = hist[i].resp.content
      /\ results[i].TokenUsage = hist[i].resp.usage
      /\ results[i].Error = NoError

\* two failures, then success on the third call
C7_Witness ==
  \E i \in Indices :
    /\ Terminal(i)
    /\ ~cancelled
    /\ hist[i].fails = 2
    /\ hist[i].calls = 3
    /\ config.MaxRetries = 3
    /\ results[i].Success
    /\ results[i].Retries = 2

\* C8: Retries of a terminal outcome = transport calls made - 1, or 0 when no
\* call was made
C8_RetriesCountExtraCalls ==
  \A i \in Indices :
    Terminal(i) =>
      results[i].Retries = IF hist[i].calls = 0 THEN 0 ELSE hist[i].calls - 1

\* C9: an item whose prompt renders empty never gets a transport call or a
\* backoff wait, and its outcome is a failure with Retries = 0
C9_EmptyPrompt ==
  \A i \in Indices :
    items[i] = "" =>
      /\ hist[i].calls = 0
      /\ hist[i].waits = 0
      /\ Terminal(i) => (~results[i].Success /\ results[i].Retries = 0)

\* an item left through the empty-prompt return
C9_Witness ==
  \E i \in Indices :
    /\ items[i] = ""
    /\ Terminal(i)
    /\ hist[i].exit = "empty"
    /\ results[i].Error = EmptyPromptError

\* C10: a worker that holds its slot and finds the context cancelled takes one
\* step only: the cancellation failure, with no token taken and no call made
C10_CancelledBeforeStart ==
  [][\A i \in Indices :
       (worker[i].pc = "check" /\ cancelled /\ worker'[i] # worker[i]) =>
         /\ worker'[i].pc = "written"
         /\ results'[i] = [Index |-> i, Output |-> "", Success |-> FALSE,
                           Error |-> CtxCanceled, Retries |-> 0,
                           TokenUsage |-> ZeroUsage]
         /\ hist'[i].taken = 0
         /\ hist'[i].calls = 0]_vars

\* an item that left through ProcessBatch's own cancellation return
C10_Witness ==
  \E i \in Indices :
    /\ Terminal(i)
    /\ hist[i].exit = "notstarted"
    /\ results[i].Error = CtxCanceled
    /\ hist[i].taken = 0

\* ---- the RateLimiter on its own -----------------------------------------
\* Time is counted in clock steps, SlicesPerTick of them to one refill
\* interval (refillRate = time.Minute / requestsPerMinute), from the creation
\* of the ticker.
batch == <<items, results, cancelled, semaphore, wg, main, worker, hist, tracker, single,
           clients>>

\* NewRateLimiter(n): make(chan struct{}, n) panics for n < 0 and
\* time.Minute / time.Duration(n) for n = 0; otherwise the channel is filled
\* with n tokens and the refill goroutine started
NewRateLimiter(n, direct) ==
  [pc |-> IF n <= 0 THEN "panicked" ELSE "running", direct |-> direct,
   cap |-> n, now |-> 0, added |-> 0, dropped |-> 0, waiting |-> <<>>, log |-> <<>>]

InitialTokensNone(n) == 0

\* for i := 0; i < requestsPerMinute; i++ { rl.tokens <- struct{}{} }
InitialTokens(n) == IF n <= 0 THEN 0 ELSE n

InitRL ==
  /\ \E r \in 0..MaxRate :
       passed = [BatchSize |-> 0, MaxConcurrent |-> 0, RateLimitPerMin |-> r,
                 MaxRetries |-> 0, InitialRetryDelay |-> 0, MaxRetryDelay |-> 0,
                 Timeout |-> 0, ExponentialBackoff |-> TRUE]
  /\ config = passed
  /\ \E d \in BOOLEAN :
       rl = [pc |-> "new", direct |-> d, cap |-> 0, now |-> 0, added |-> 0, dropped |-> 0,
             waiting |-> <<>>, log |-> <<>>]
  /\ tokens = 0
  /\ items = [i \in {} |-> ""]
  /\ results = [i \in {} |-> ZeroResult]
  /\ cancelled = FALSE
  /\ semaphore = 0
  /\ wg = 0
  /\ main = [pc |-> "none", batchStart |-> 0, i |-> 0]
  /\ worker = [i \in {} |-> IdleWorker]
  /\ hist = [i \in {} |-> NoHistory]
  /\ arg = NoCall
  /\ out = NoCall
  /\ tracker = NewTokenTracker
  /\ single = NoSingle
  /\ clients = NoClients

\* NewAIProcessor(config, logger), which builds the limiter from the defaulted
\* RateLimitPerMin, or NewRateLimiter called with the value as passed
Construct ==
  /\ rl.pc = "new"
  /\ IF rl.direct
       THEN /\ rl' = NewRateLimiter(passed.RateLimitPerMin, TRUE)
            /\ tokens' = InitialTokens(passed.RateLimitPerMin)
            /\ UNCHANGED config
       ELSE /\ config' = NewAIProcessor(passed)
            /\ rl' = NewRateLimiter(NewAIProcessor(passed).RateLimitPerMin, FALSE)
            /\ tokens' = InitialTokens(NewAIProcessor(passed).RateLimitPerMin)
  /\ UNCHANGED <<passed, arg, out, batch>>

TickDueEverySlice(t) == TRUE

\* ticker := time.NewTicker(rl.refillRate): a tick at every whole interval
TickDue(t) == t % SlicesPerTick = 0

\* one clock step; for range ticker.C { select { case rl.tokens <- ...: default: } }
ClockStep ==
  /\ rl.pc = "running"
  /\ rl.now < MaxClock
  /\ IF TickDue(rl.now + 1)
       THEN /\ tokens' = RefillTick(tokens, rl.cap)
            /\ rl' = [rl EXCEPT !.now = rl.now + 1,
                                !.added = IF tokens' # tokens THEN rl.added + 1 ELSE rl.added,
                                !.dropped = IF tokens' = tokens THEN rl.dropped + 1
                                            ELSE rl.dropped]
       ELSE /\ rl' = [rl EXCEPT !.now = rl.now + 1]
            /\ UNCHANGED tokens
  /\ UNCHANGED <<passed, config, arg, out, batch>>

\* a goroutine calls rl.Wait(); rl.waiting holds the time of the call of every
\* goroutine inside Wait, in the order of the calls
CallWait ==
  /\ rl.pc = "running"
  /\ Len(rl.waiting) < MaxCallers
  /\ Len(rl.log) + Len(rl.waiting) < MaxAcquisitions
  /\ rl' = [rl EXCEPT !.waiting = Append(rl.waiting, rl.now)]
  /\ UNCHANGED <<passed, config, tokens, arg, out, batch>>

Remove(seq, k) == [j \in 1..(Len(seq) - 1) |-> IF j < k THEN seq[j] ELSE seq[j + 1]]

\* <-rl.tokens delivers a token to one of the goroutines inside Wait, which returns
TakeToken(k) ==
  /\ rl.pc = "running"
  /\ k \in 1..Len(rl.waiting)
  /\ TokenAvailable
  /\ tokens' = tokens - 1
  /\ rl' = [rl EXCEPT !.waiting = Remove(rl.waiting, k),
                      !.log = Append(rl.log, [issued |-> rl.waiting[k],
                                              completed |-> rl.now])]
  /\ UNCHANGED <<passed, config, arg, out, batch>>

NextRL ==
  \/ Construct
  \/ ClockStep
  \/ CallWait
  \/ \E k \in 1..MaxCallers : TakeToken(k)

SpecRL == InitRL /\ [][NextRL]_vars

Running == rl.pc = "running"

\* C11: once the context is cancelled no worker starts a transport call
C11_NoCallAfterCancel ==
  [][\A i \in Indices : cancelled => hist'[i].calls = hist[i].calls]_vars

\* C12: results[i] changes only in the step in which worker i terminates, which
\* is its only write; the outcome of a terminal item never changes afterwards
C12_WrittenOnce ==
  [][\A i \in Indices :
       /\ results'[i] # results[i] =>
            (~Terminal(i) /\ worker'[i].pc = "written" /\ hist'[i].writes = 1)
       /\ hist'[i].writes # hist[i].writes =>
            (~Terminal(i) /\ worker'[i].pc = "written" /\ hist'[i].writes = 1)
       /\ Terminal(i) => results'[i] = results[i]]_vars

\* ProcessBatch has returned after a cancellation: a success of item 1 sits
\* beside the cancellation failure of item 0
C12_Witness ==
  /\ Returned
  /\ cancelled
  /\ N = 2
  /\ results[1].Success
  /\ results[1].Index = 1
  /\ results[0].Error = CtxCanceled
  /\ results[0].Index = 0

\* C13: an item in its backoff wait when the context is cancelled takes one
\* step only: the cancellation failure carrying the retry count it entered the
\* wait with, no further token and no further transport call
C13_CancelledInBackoff ==
  [][\A i \in Indices :
       (worker[i].pc = "backoff" /\ cancelled /\ worker'[i] # worker[i]) =>
         /\ worker'[i].pc = "written"
         /\ results'[i] = [Index |-> i, Output |-> "", Success |-> FALSE,
                           Error |-> CtxCanceled, Retries |-> worker[i].retryCount,
                           TokenUsage |-> ZeroUsage]
         /\ hist'[i].taken = hist[i].taken
         /\ hist'[i].calls = hist[i].calls]_vars

\* an item that left through <-ctx.Done() after two failed calls
C13_Witness ==
  \E i \in Indices :
    /\ Terminal(i)
    /\ hist[i].exit = "cancelledwait"
    /\ results[i].Error = CtxCanceled
    /\ results[i].Retries = 2
    /\ hist[i].calls = 2

\* C14: an item that fails because of the cancellation (found at a context
\* check, during the backoff wait, or by its last transport call) carries the
\* context's error and does not leave through the exhaustion return
C14_CancellationError ==
  \A i \in Indices :
    (/\ Terminal(i)
     /\ ~results[i].Success
     /\ \/ hist[i].exit \in {"notstarted", "cancelled", "cancelledwait"}
        \/ hist[i].err = RequestFailedCanceled) =>
      /\ results[i].Error = CtxCanceled
      /\ hist[i].exit # "exhausted"

\* ---- the RateLimiter: vocabulary ------------------------------------------
\* acquisitions after the initial burst of cap that complete in [from, to)
CompletedIn(from, to) ==
  Cardinality({k \in (rl.cap + 1)..Len(rl.log) :
                 from <= rl.log[k].completed /\ rl.log[k].completed < to})
\* R consecutive refill intervals, in clock steps
Window == rl.cap * SlicesPerTick
Drained == Len(rl.log) >= rl.cap

\* C15: the pool of a running limiter of capacity R holds between 0 and R
\* tokens, and every token in the pool or handed out comes from the initial
\* fill or from a tick that found room: a dropped tick never shows up later
C15_PoolWithinCapacity ==
  Running =>
    /\ tokens >= 0
    /\ tokens <= rl.cap
    /\ tokens + Len(rl.log) = rl.cap + rl.added

\* ticks were dropped at a full pool, later ticks added tokens, and the pool
\* is full again
C15_Witness ==
  /\ Running
  /\ rl.dropped >= 1
  /\ rl.added >= 1
  /\ Len(rl.log) >= 1
  /\ tokens = rl.cap

\* C16: Wait returns only in a step that finds a token and removes exactly
\* one, for exactly one of the goroutines inside Wait; a goroutine inside Wait
\* stays there while the pool is empty; the only way out of Wait is the return
C16_WaitTakesOneToken ==
  [][Running =>
       /\ Len(rl'.log) # Len(rl.log) =>
            /\ tokens > 0
            /\ tokens' = tokens - 1
            /\ Len(rl'.log) = Len(rl.log) + 1
            /\ Len(rl'.waiting) = Len(rl.waiting) - 1
       /\ Len(rl'.waiting) < Len(rl.waiting) => Len(rl'.log) = Len(rl.log) + 1
       /\ tokens = 0 => Len(rl'.waiting) >= Len(rl.waiting)
       /\ tokens' < tokens => Len(rl'.log) = Len(rl.log) + 1]_vars

\* two goroutines were inside Wait on an empty pool; a refill served one of
\* them, the other is still blocked
C16_Witness ==
  /\ Running
  /\ tokens = 0
  /\ Len(rl.waiting) = 1
  /\ \E k \in 1..Len(rl.log) :
       /\ k > rl.cap
       /\ rl.log[k].completed > rl.log[k].issued
       /\ rl.waiting[1] <= rl.log[k].issued

\* C17 as stated: the first R acquisitions never find the pool empty, and the
\* (R+1)-th completes no earlier than one full refill interval after its call
C17_BurstThenFullInterval ==
  Running =>
    /\ Len(rl.log) < rl.cap => tokens > 0
    /\ Len(rl.log) > rl.cap =>
         rl.log[rl.cap + 1].completed - rl.log[rl.cap + 1].issued >= SlicesPerTick

\* C17 as amended: the first R acquisitions never find the pool empty, and the
\* (R+1)-th completes only after a tick added a token, so no earlier than one
\* full refill interval after the creation of the limiter
C17_BurstThenFirstTick ==
  Running =>
    /\ Len(rl.log) < rl.cap => tokens > 0
    /\ Len(rl.log) > rl.cap =>
         /\ rl.added >= 1
         /\ rl.log[rl.cap + 1].completed >= SlicesPerTick

\* the burst of R at creation, then the (R+1)-th call made inside the first
\* interval and served by the first tick, less than an interval after the call
C17_Witness ==
  /\ Running
  /\ Len(rl.log) = rl.cap + 1
  /\ \A k \in 1..rl.cap : rl.log[k].completed = 0
  /\ rl.log[rl.cap + 1].issued > 0
  /\ rl.log[rl.cap + 1].completed = SlicesPerTick
  /\ rl.log[rl.cap + 1].completed - rl.log[rl.cap + 1].issued < SlicesPerTick

\* C18 as stated: after the initial burst, at most R acquisitions complete in
\* any window of R consecutive refill intervals
C18_AtMostCapPerWindow ==
  (Running /\ Drained) =>
    \A t \in rl.log[rl.cap].completed..rl.now : CompletedIn(t, t + Window) <= rl.cap

\* C18 as amended: after the initial burst, at most 2R acquisitions complete in
\* any window of R consecutive refill intervals: the at most R tokens an idle
\* period left in the pool and one per tick inside the window
C18_AtMostTwiceCapPerWindow ==
  (Running /\ Drained) =>
    \A t \in rl.log[rl.cap].completed..rl.now : CompletedIn(t, t + Window) <= 2 * rl.cap

\* after an idle period a window holds 2R acquisitions
C18_Witness ==
  /\ Running
  /\ Drained
  /\ rl.dropped >= 1
  /\ \E t \in rl.log[rl.cap].completed..rl.now : CompletedIn(t, t + Window) = 2 * rl.cap

\* C19 as stated: with a requests-per-minute of 0 no limiter runs
C19_ZeroRateRejected ==
  (passed.RateLimitPerMin = 0 /\ rl.pc # "new") => ~Running

\* C19 as amended: NewAIProcessor replaces a requests-per-minute of 0 by 60 and
\* starts a limiter of capacity 60, full; NewRateLimiter called with 0 panics
\* and no limiter runs
C19_ZeroRateDefaulted ==
  (passed.RateLimitPerMin = 0 /\ rl.pc # "new") =>
    IF rl.direct
      THEN rl.pc = "panicked" /\ tokens = 0
      ELSE /\ Running
           /\ config.RateLimitPerMin = DefaultRateLimitPerMin
           /\ rl.cap = DefaultRateLimitPerMin
           /\ tokens + Len(rl.log) = DefaultRateLimitPerMin + rl.added

\* a processor built with 0 serves acquisitions from a pool of 60
C19_Witness ==
  /\ passed.RateLimitPerMin = 0
  /\ ~rl.direct
  /\ Running
  /\ rl.cap = DefaultRateLimitPerMin
  /\ Len(rl.log) = 2
  /\ tokens = DefaultRateLimitPerMin - 2

\* ---- calculateRetryDelay on its own ---------------------------------------
\* A time.Duration is an int64 count of nanoseconds. It is kept here as its
\* eight bytes, least significant first, in two's complement, so that the
\* shift and the multiplication wrap as they do in the program.
Int64(n) ==
  <<n % 256, (n \div 256) % 256, (n \div 65536) % 256, (n \div 16777216) % 256, 0, 0, 0, 0>>

RECURSIVE ColumnSum(_, _, _, _)
ColumnSum(a, b, i, j) ==
  IF j = 0 THEN 0 ELSE a[j] * b[i + 1 - j] + ColumnSum(a, b, i, j - 1)

RECURSIVE MulColumns(_, _, _, _)
MulColumns(a, b, i, carry) ==
  IF i > 8 THEN <<>>
  ELSE LET col == carry + ColumnSum(a, b, i, i)
       IN  <<col % 256>> \o MulColumns(a, b, i + 1, col \div 256)

\* a * b on int64: the low 64 bits of the product
Mul64(a, b) == MulColumns(a, b, 1, 0)

\* x << k on int64: bits shifted past bit 63 are lost, and a count of 64 or
\* more leaves 0
ShiftLeft(x, k) ==
  LET q == k \div 8
      p == 2 ^ (k % 8)
      Byte(i) == IF i >= 1 THEN x[i] ELSE 0
  IN  [i \in 1..8 |-> ((Byte(i - q) * p) % 256) + ((Byte(i - q - 1) * p) \div 256)]

Negative(x) == x[8] >= 128

RECURSIVE GreaterFrom(_, _, _)
GreaterFrom(a, b, i) ==
  IF i = 0 THEN FALSE
  ELSE IF a[i] # b[i] THEN a[i] > b[i]
  ELSE GreaterFrom(a, b, i - 1)

\* a > b on int64
Greater(a, b) ==
  IF Negative(a) # Negative(b) THEN Negative(b) ELSE GreaterFrom(a, b, 8)

\* time.Second, and a duration of s seconds
Second == Int64(1000000000)
Seconds(s) == Mul64(Int64(s), Second)

\* delay := InitialRetryDelay * time.Duration(1<<uint(attempt)), capped by
\* MaxRetryDelay
calculateRetryDelay(c, attempt) ==
  IF ~c.ExponentialBackoff
    THEN Seconds(c.InitialRetryDelay)
    ELSE LET delay == Mul64(Seconds(c.InitialRetryDelay), ShiftLeft(Int64(1), attempt))
         IN  IF Greater(delay, Seconds(c.MaxRetryDelay))
               THEN Seconds(c.MaxRetryDelay)
               ELSE delay

InitDelay ==
  /\ \E d \in 0..MaxDelayArg, m \in 0..MaxDelayArg, e \in BOOLEAN,
        r \in {0, MaxAttemptNo + 1} :
       passed = [BatchSize |-> 0, MaxConcurrent |-> 0, RateLimitPerMin |-> 0,
                 MaxRetries |-> r, InitialRetryDelay |-> d, MaxRetryDelay |-> m,
                 Timeout |-> 0, ExponentialBackoff |-> e]
  /\ config = NewAIProcessor(passed)
  /\ rl = NoLimiter
  /\ tokens = 0
  /\ items = [i \in {} |-> ""]
  /\ results = [i \in {} |-> ZeroResult]
  /\ cancelled = FALSE
  /\ semaphore = 0
  /\ wg = 0
  /\ main = [pc |-> "none", batchStart |-> 0, i |-> 0]
  /\ worker = [i \in {} |-> IdleWorker]
  /\ hist = [i \in {} |-> NoHistory]
  /\ arg = NoCall
  /\ out = NoCall
  /\ tracker = NewTokenTracker
  /\ single = NoSingle
  /\ clients = NoClients

\* one call ap.calculateRetryDelay(attempt)
Calculate(attempt) ==
  /\ arg' = [fn |-> "calculateRetryDelay", attempt |-> attempt]
  /\ out' = [fn |-> "calculateRetryDelay", delay |-> calculateRetryDelay(config, attempt)]
  /\ UNCHANGED <<passed, config, tokens, rl, batch>>

NextDelay == \E attempt \in 0..MaxAttemptNo : Calculate(attempt)

SpecDelay == InitDelay /\ [][NextDelay]_vars

DelayReturned == out.fn = "calculateRetryDelay"

\* C20: with exponential backoff the delay returned for attempt k is
\* min(initialDelay * 2^k, maxDelay), the minimum taken on the mathematical
\* integers, and for k = 0 it is initialDelay
C20_DelayIsCappedPower ==
  LET RECURSIVE MinOfPower(_, _, _)
      MinOfPower(initial, max, k) ==
        IF initial >= max THEN max
        ELSE IF k = 0 THEN initial
        ELSE MinOfPower(2 * initial, max, k - 1)
  IN  (DelayReturned /\ config.ExponentialBackoff) =>
        /\ out.delay = Seconds(MinOfPower(config.InitialRetryDelay, config.MaxRetryDelay,
                                          arg.attempt))
        /\ arg.attempt = 0 => out.delay = Seconds(config.InitialRetryDelay)

\* C21: with exponential backoff and a positive initialDelay, over the attempt
\* numbers the retry loop can pass (attempt < MaxRetries) the delay is positive
\* and the delay of the next attempt is not smaller
C21_MonotoneAndPositive ==
  (/\ DelayReturned
   /\ config.ExponentialBackoff
   /\ config.InitialRetryDelay > 0
   /\ arg.attempt < config.MaxRetries) =>
    /\ ~Negative(out.delay)
    /\ out.delay # Int64(0)
    /\ arg.attempt + 1 < config.MaxRetries =>
         ~Greater(out.delay, calculateRetryDelay(config, arg.attempt + 1))

\* ---- TokenTracker: what its methods compute -------------------------------
AppendUsageUnderUnknown(tr, weekLabel, usage) ==
  [tr EXCEPT !.usageByWeek["unknown"] = Append(@, usage)]

\* tt.usageByWeek[weekLabel] = append(tt.usageByWeek[weekLabel], usage)
AppendUsage(tr, weekLabel, usage) ==
  [tr EXCEPT !.usageByWeek[weekLabel] = Append(@, usage)]

\* tt.totalUsage.PromptTokens += promptTokens, and so on, field by field
AddToTotal(tr, usage) ==
  [tr EXCEPT !.totalUsage =
     [PromptTokens |-> @.PromptTokens + usage.PromptTokens,
      CompletionTokens |-> @.CompletionTokens + usage.CompletionTokens,
      TotalTokens |-> @.TotalTokens + usage.TotalTokens]]

\* RecordUsage between mu.Lock() and mu.Unlock()
RecordUsage(tr, weekLabel, promptTokens, completionTokens) ==
  AddToTotal(AppendUsage(tr, weekLabel, MkUsage(promptTokens, completionTokens)),
             MkUsage(promptTokens, completionTokens))

\* for _, usage := range weekUsages { summary.X += usage.X }
RECURSIVE SumUsage(_)
SumUsage(usages) ==
  IF Len(usages) = 0 THEN ZeroUsage
  ELSE LET rest == SumUsage(Tail(usages))
       IN  [PromptTokens |-> Head(usages).PromptTokens + rest.PromptTokens,
            CompletionTokens |-> Head(usages).CompletionTokens + rest.CompletionTokens,
            TotalTokens |-> Head(usages).TotalTokens + rest.TotalTokens]

\* GetWeekSummary between mu.RLock() and mu.RUnlock()
GetWeekSummary(tr, weekLabel) ==
  IF Len(tr.usageByWeek[weekLabel]) = 0 THEN ZeroUsage
  ELSE SumUsage(tr.usageByWeek[weekLabel])

\* GetTotalSummary between mu.RLock() and mu.RUnlock()
GetTotalSummary(tr) == tr.totalUsage

\* ---- ProcessSingleWithWeek on its own ------------------------------------
\* The goroutine of the gold layer calls ProcessSingleWithWeek once per kid,
\* one call after the other; ProcessSingle is that call with the label
\* "unknown", and ProcessSingleDeprecated has the same rate-limiter wait and
\* retry loop without the usage record. Of one call single keeps: fn (the
\* method called), attempt and err of the
\* loop, calls (callOpenAI invocations), taken (tokens taken), sleeps (the
\* attempt numbers handed to calculateRetryDelay, in order) and ret; over all
\* calls: done (calls returned) and succ (label and usage of the successes).
IdleSingle ==
  [pc |-> "idle", fn |-> "ProcessSingleWithWeek", weekLabel |-> "unknown", attempt |-> 0, err |-> NoError, calls |-> 0,
   taken |-> 0, sleeps |-> <<>>, ret |-> [response |-> "", err |-> NoError], done |-> 0,
   succ |-> <<>>]

InitSingle ==
  /\ \E r \in 1..MaxRate, m \in 0..MaxRetriesArg :
       passed = [BatchSize |-> 0, MaxConcurrent |-> 0, RateLimitPerMin |-> r,
                 MaxRetries |-> m, InitialRetryDelay |-> 0, MaxRetryDelay |-> 0,
                 Timeout |-> 0, ExponentialBackoff |-> TRUE]
  /\ config = NewAIProcessor(passed)
  /\ tokens = config.RateLimitPerMin
  /\ tracker = NewTokenTracker
  /\ single = IdleSingle
  /\ clients = NoClients
  /\ items = [i \in {} |-> ""]
  /\ results = [i \in {} |-> ZeroResult]
  /\ cancelled = FALSE
  /\ semaphore = 0
  /\ wg = 0
  /\ main = [pc |-> "none", batchStart |-> 0, i |-> 0]
  /\ worker = [i \in {} |-> IdleWorker]
  /\ hist = [i \in {} |-> NoHistory]
  /\ rl = NoLimiter
  /\ arg = NoCall
  /\ out = NoCall

\* the variables ProcessSingleWithWeek leaves alone
others == <<passed, config, items, results, semaphore, wg, main, worker, hist, rl, arg, out,
            clients>>

\* the gold layer calls ProcessSingleWithWeek(ctx, prompt, systemMessage, weekLabel);
\* a caller of ProcessSingleDeprecated(ctx, prompt, systemMessage) passes no label
SingleCallStart(fn, weekLabel) ==
  /\ single.pc \in {"idle", "returned"}
  /\ single.done < MaxSingleCalls
  /\ fn = "ProcessSingleDeprecated" => weekLabel = "unknown"
  /\ single' = [IdleSingle EXCEPT !.pc = "wait", !.fn = fn, !.weekLabel = weekLabel,
                                  !.done = single.done, !.succ = single.succ]
  /\ UNCHANGED <<others, cancelled, tokens, tracker>>

\* ap.rateLimiter.Wait(), once, before the loop
SingleRateWait ==
  /\ single.pc = "wait"
  /\ TokenAvailable
  /\ tokens' = tokens - 1
  /\ single' = [single EXCEPT !.pc = "loop", !.taken = single.taken + 1]
  /\ UNCHANGED <<others, cancelled, tracker>>

\* for attempt := 0; attempt < MaxRetries; attempt++
SingleLoopCondition(attempt) == attempt < config.MaxRetries

\* if attempt > 0 { delay := ap.calculateRetryDelay(attempt); time.Sleep(delay) }
SleepsBeforeAttempt(attempt) == attempt > 0

\* "failed after %d attempts: %w"
FailedAfterAttempts(err) == "failed after attempts: " \o err

\* the top of the loop: the sleep before a retry, the start of callOpenAI, or
\* the code after the loop once the attempts are used up
SingleLoopTop ==
  /\ single.pc = "loop"
  /\ IF SingleLoopCondition(single.attempt)
       THEN IF SleepsBeforeAttempt(single.attempt)
              THEN single' = [single EXCEPT !.pc = "sleep",
                                            !.sleeps = Append(single.sleeps, single.attempt)]
              ELSE single' = [single EXCEPT !.pc = "calling", !.calls = single.calls + 1]
       ELSE single' = [single EXCEPT
                         !.pc = "returned",
                         !.done = single.done + 1,
                         !.ret = IF single.err # NoError
                                   THEN [response |-> "",
                                         err |-> FailedAfterAttempts(single.err)]
                                   ELSE [response |-> "", err |-> NoError]]
  /\ UNCHANGED <<others, cancelled, tokens, tracker>>

\* time.Sleep(delay) returns; it does not watch ctx
SingleSleepElapsed ==
  /\ single.pc = "sleep"
  /\ single' = [single EXCEPT !.pc = "calling", !.calls = single.calls + 1]
  /\ UNCHANGED <<others, cancelled, tokens, tracker>>

RecordsUsageAlways(err) == TRUE

\* if err == nil { ap.tokenTracker.RecordUsage(...); break }
RecordsUsage(err) == err = NoError

\* response, usage, err := callOpenAI in ProcessSingleWithWeek;
\* response, _, err = callOpenAI in ProcessSingleDeprecated, which has no
\* call of RecordUsage
TracksUsage(fn) == fn = "ProcessSingleWithWeek"

\* callOpenAI returns (response, usage, nil): the usage is recorded (not by
\* ProcessSingleDeprecated), the loop left, and the response returned
SingleCallSucceeds ==
  /\ single.pc = "calling"
  /\ \E resp \in Responses :
       /\ tracker' = IF TracksUsage(single.fn) /\ RecordsUsage(NoError)
                       THEN RecordUsage(tracker, single.weekLabel, resp.usage.PromptTokens,
                                        resp.usage.CompletionTokens)
                       ELSE tracker
       /\ single' = [single EXCEPT
                       !.pc = "returned", !.err = NoError, !.done = single.done + 1,
                       !.ret = [response |-> resp.content, err |-> NoError],
                       !.succ = Append(single.succ, [fn |-> single.fn,
                                                     weekLabel |-> single.weekLabel,
                                                     usage |-> resp.usage])]
  /\ UNCHANGED <<others, cancelled, tokens>>

\* callOpenAI returns ("", Usage{}, err): attempt++
SingleCallFails ==
  /\ single.pc = "calling"
  /\ \E err \in TransportErrors \cup (IF cancelled THEN {RequestFailedCanceled} ELSE {}) :
       /\ tracker' = IF TracksUsage(single.fn) /\ RecordsUsage(err)
                       THEN RecordUsage(tracker, single.weekLabel, ZeroUsage.PromptTokens,
                                        ZeroUsage.CompletionTokens)
                       ELSE tracker
       /\ single' = [single EXCEPT !.pc = "loop", !.err = err,
                                   !.attempt = single.attempt + 1]
  /\ UNCHANGED <<others, cancelled, tokens>>

NextSingle ==
  \/ \E fn \in {"ProcessSingleWithWeek", "ProcessSingleDeprecated"}, weekLabel \in WeekLabels :
       SingleCallStart(fn, weekLabel)
  \/ SingleRateWait
  \/ SingleLoopTop
  \/ SingleSleepElapsed
  \/ SingleCallSucceeds
  \/ SingleCallFails
  \/ Cancel
  \/ Refill

SpecSingle == InitSingle /\ [][NextSingle]_vars

\* C22: the delay waited before the n-th retry of a call is the policy's
\* delay for attempt number n - 1 (initialDelay before the first retry)
C22_DelayNumbersFromZero ==
  single.pc # "none" =>
    \A n \in 1..Len(single.sleeps) : single.sleeps[n] = n - 1

\* C23: within a call of ProcessSingleWithWeek no more transport calls are
\* started than tokens were taken from the rate limiter
C23_CallsWithinTokens ==
  single.pc # "none" => single.calls <= single.taken

\* the sum of a usage field over the successful outcomes results[0..n-1]
RECURSIVE SuccessUsage(_)
SuccessUsage(n) ==
  IF n = 0 THEN ZeroUsage
  ELSE LET rest == SuccessUsage(n - 1)
           u == IF results[n - 1].Success THEN results[n - 1].TokenUsage ELSE ZeroUsage
       IN  [PromptTokens |-> rest.PromptTokens + u.PromptTokens,
            CompletionTokens |-> rest.CompletionTokens + u.CompletionTokens,
            TotalTokens |-> rest.TotalTokens + u.TotalTokens]

\* C24: when ProcessBatch has returned, the tracker's grand total is the sum of
\* the token usage of the successful outcomes, one record per success
C24_BatchUsageRecorded ==
  Returned =>
    /\ GetTotalSummary(tracker) = SuccessUsage(N)
    /\ Len(tracker.usageByWeek["2024-W01"]) + Len(tracker.usageByWeek["unknown"])
         = Cardinality({i \in Indices : results[i].Success})

\* the records the tracker holds, over all labels
RecordCount(tr) == Len(tr.usageByWeek["2024-W01"]) + Len(tr.usageByWeek["unknown"])

\* C25: the tracker changes only in the step in which a transport call
\* succeeds, by the one record of that call; a failed attempt and the return
\* after the attempts are used up, cancelled or not, leave it unchanged
C25_RecordOnlyOnSuccess ==
  [][/\ (single.pc = "calling" /\ single'.pc = "loop") => tracker' = tracker
     /\ (single.pc = "loop" /\ single'.pc = "returned") => tracker' = tracker
     /\ tracker' # tracker =>
          /\ single.pc = "calling"
          /\ single'.pc = "returned"
          /\ single.fn = "ProcessSingleWithWeek"
          /\ single'.ret.err = NoError
          /\ Len(single'.succ) = Len(single.succ) + 1
          /\ RecordCount(tracker') = RecordCount(tracker) + 1]_vars

\* a call that succeeded, then a call under cancellation that used up its
\* attempts: the tracker holds the one record of the first call
C25_Witness ==
  /\ single.pc = "returned"
  /\ single.done = 2
  /\ single.ret.err = FailedAfterAttempts(RequestFailedCanceled)
  /\ single.calls >= 2
  /\ Len(single.succ) = 1
  /\ RecordCount(tracker) = 1
  /\ GetTotalSummary(tracker) = single.succ[1].usage

\* ---- the TokenTracker under concurrent callers ----------------------------
\* Each goroutine makes one call: RecordUsage (mu.Lock, the append, the three
\* additions to totalUsage one after the other, the deferred mu.Unlock) or a
\* summary read (mu.RLock, the read, the deferred mu.RUnlock). tracker.writer
\* is the goroutine holding the write lock (0: none), tracker.readers the
\* number of read locks held.
UsageArgs == {<<2, 1>>, <<1, 3>>}

IdleClient ==
  [op |-> "none", weekLabel |-> "unknown", p |-> 0, c |-> 0, pc |-> "idle",
   result |-> ZeroUsage]

InitTracker ==
  /\ tracker = NewTokenTracker
  /\ clients = [k \in 1..MaxClients |-> IdleClient]
  /\ single = NoSingle
  /\ passed = [BatchSize |-> 0, MaxConcurrent |-> 0, RateLimitPerMin |-> 0,
               MaxRetries |-> 0, InitialRetryDelay |-> 0, MaxRetryDelay |-> 0,
               Timeout |-> 0, ExponentialBackoff |-> TRUE]
  /\ config = NewAIProcessor(passed)
  /\ tokens = 0
  /\ items = [i \in {} |-> ""]
  /\ results = [i \in {} |-> ZeroResult]
  /\ cancelled = FALSE
  /\ semaphore = 0
  /\ wg = 0
  /\ main = [pc |-> "none", batchStart |-> 0, i |-> 0]
  /\ worker = [i \in {} |-> IdleWorker]
  /\ hist = [i \in {} |-> NoHistory]
  /\ rl = NoLimiter
  /\ arg = NoCall
  /\ out = NoCall

\* the variables the tracker's methods leave alone
rest == <<passed, config, items, results, cancelled, tokens, semaphore, wg, main, worker, hist,
          rl, arg, out, single>>

LockAlwaysFree(tr) == TRUE

\* mu.Lock() returns when no goroutine holds the lock, for writing or reading
LockFree(tr) == tr.writer = 0 /\ tr.readers = 0

RLockAlwaysFree(tr) == TRUE

\* mu.RLock() returns when no goroutine holds the lock for writing
RLockFree(tr) == tr.writer = 0

\* RecordUsage(weekLabel, promptTokens, completionTokens): tt.mu.Lock()
RecordUsageLock(k, weekLabel, promptTokens, completionTokens) ==
  /\ clients[k].pc = "idle"
  /\ LockFree(tracker)
  /\ tracker' = [tracker EXCEPT !.writer = k]
  /\ clients' = [clients EXCEPT ![k] = [IdleClient EXCEPT
                    !.op = "RecordUsage", !.weekLabel = weekLabel, !.p = promptTokens,
                    !.c = completionTokens, !.pc = "append"]]
  /\ UNCHANGED rest

\* tt.usageByWeek[weekLabel] = append(tt.usageByWeek[weekLabel], usage)
RecordUsageAppend(k) ==
  /\ clients[k].pc = "append"
  /\ tracker' = AppendUsage(tracker, clients[k].weekLabel, MkUsage(clients[k].p, clients[k].c))
  /\ clients' = [clients EXCEPT ![k].pc = "prompt"]
  /\ UNCHANGED rest

\* tt.totalUsage.PromptTokens += promptTokens
RecordUsagePrompt(k) ==
  /\ clients[k].pc = "prompt"
  /\ tracker' = [tracker EXCEPT !.totalUsage.PromptTokens = @ + clients[k].p]
  /\ clients' = [clients EXCEPT ![k].pc = "completion"]
  /\ UNCHANGED rest

\* tt.totalUsage.CompletionTokens += completionTokens
RecordUsageCompletion(k) ==
  /\ clients[k].pc = "completion"
  /\ tracker' = [tracker EXCEPT !.totalUsage.CompletionTokens = @ + clients[k].c]
  /\ clients' = [clients EXCEPT ![k].pc = "total"]
  /\ UNCHANGED rest

\* tt.totalUsage.TotalTokens += totalTokens, then the deferred tt.mu.Unlock()
RecordUsageTotal(k) ==
  /\ clients[k].pc = "total"
  /\ tracker' = [tracker EXCEPT !.totalUsage.TotalTokens = @ + clients[k].p + clients[k].c,
                                !.writer = 0]
  /\ clients' = [clients EXCEPT ![k].pc = "done"]
  /\ UNCHANGED rest

\* GetWeekSummary(weekLabel): tt.mu.RLock()
GetWeekSummaryRLock(k, weekLabel) ==
  /\ clients[k].pc = "idle"
  /\ RLockFree(tracker)
  /\ tracker' = [tracker EXCEPT !.readers = @ + 1]
  /\ clients' = [clients EXCEPT ![k] = [IdleClient EXCEPT
                    !.op = "GetWeekSummary", !.weekLabel = weekLabel, !.pc = "reading"]]
  /\ UNCHANGED rest

\* GetTotalSummary(): tt.mu.RLock()
GetTotalSummaryRLock(k) ==
  /\ clients[k].pc = "idle"
  /\ RLockFree(tracker)
  /\ tracker' = [tracker EXCEPT !.readers = @ + 1]
  /\ clients' = [clients EXCEPT ![k] = [IdleClient EXCEPT
                    !.op = "GetTotalSummary", !.pc = "reading"]]
  /\ UNCHANGED rest

\* the value a summary read returns on the tracker as it is
SummaryRead(tr, client) ==
  IF client.op = "GetWeekSummary" THEN GetWeekSummary(tr, client.weekLabel)
  ELSE GetTotalSummary(tr)

\* the summary is computed and returned, then the deferred tt.mu.RUnlock()
SummaryReturn(k) ==
  /\ clients[k].pc = "reading"
  /\ tracker' = [tracker EXCEPT !.readers = @ - 1]
  /\ clients' = [clients EXCEPT ![k].pc = "done",
                                ![k].result = SummaryRead(tracker, clients[k])]
  /\ UNCHANGED rest

NextTracker ==
  \E k \in 1..MaxClients :
    \/ \E weekLabel \in WeekLabels, u \in UsageArgs : RecordUsageLock(k, weekLabel, u[1], u[2])
    \/ RecordUsageAppend(k)
    \/ RecordUsagePrompt(k)
    \/ RecordUsageCompletion(k)
    \/ RecordUsageTotal(k)
    \/ \E weekLabel \in WeekLabels : GetWeekSummaryRLock(k, weekLabel)
    \/ GetTotalSummaryRLock(k)
    \/ SummaryReturn(k)

SpecTracker == InitTracker /\ [][NextTracker]_vars

\* ---- the TokenTracker: vocabulary ---------------------------------------
AllRecords(tr) == tr.usageByWeek["2024-W01"] \o tr.usageByWeek["unknown"]

\* the grand total is the sum of all records, field by field, and its
\* TotalTokens is PromptTokens + CompletionTokens
Consistent(tr) ==
  /\ tr.totalUsage = SumUsage(AllRecords(tr))
  /\ tr.totalUsage.TotalTokens = tr.totalUsage.PromptTokens + tr.totalUsage.CompletionTokens

Writers == {k \in DOMAIN clients : clients[k].op = "RecordUsage"}
WritersDone == {k \in Writers : clients[k].pc = "done"}
\* the RecordUsage calls whose append has been executed
Appended(cl) == {k \in DOMAIN cl : cl[k].op = "RecordUsage" /\ cl[k].pc \notin {"idle", "append"}}

\* the sum of (p, c) over the goroutines ks
RECURSIVE SumArgs(_, _)
SumArgs(cl, ks) ==
  IF ks = {} THEN ZeroUsage
  ELSE LET k == CHOOSE x \in ks : TRUE
           others1 == SumArgs(cl, ks \ {k})
       IN  [PromptTokens |-> others1.PromptTokens + cl[k].p,
            CompletionTokens |-> others1.CompletionTokens + cl[k].c,
            TotalTokens |-> others1.TotalTokens + cl[k].p + cl[k].c]

\* C26: whenever a reader can hold the lock, the grand total equals the sums
\* over all records and TotalTokens = PromptTokens + CompletionTokens; every
\* total a reader got has TotalTokens = PromptTokens + CompletionTokens; after
\* N completed RecordUsage calls, all with (p, c), TotalTokens is N * (p + c)
C26_TotalIsSumOfRecords ==
  clients # NoClients =>
    /\ (tracker.writer = 0 \/ tracker.readers > 0) => Consistent(tracker)
    /\ \A k \in DOMAIN clients :
         (clients[k].op = "GetTotalSummary" /\ clients[k].pc = "done") =>
           clients[k].result.TotalTokens
             = clients[k].result.PromptTokens + clients[k].result.CompletionTokens
    /\ \A u \in UsageArgs :
         (/\ Writers = WritersDone
          /\ \A k \in Writers : clients[k].p = u[1] /\ clients[k].c = u[2]) =>
           GetTotalSummary(tracker).TotalTokens = Cardinality(Writers) * (u[1] + u[2])

\* two RecordUsage calls with (2, 1) under different labels have completed; a
\* GetTotalSummary between them returned the total of the first alone
C26_Witness ==
  /\ clients # NoClients
  /\ Cardinality(WritersDone) = 2
  /\ \A k \in WritersDone : clients[k].p = 2 /\ clients[k].c = 1
  /\ Len(tracker.usageByWeek["2024-W01"]) = 1
  /\ Len(tracker.usageByWeek["unknown"]) = 1
  /\ GetTotalSummary(tracker) = [PromptTokens |-> 4, CompletionTokens |-> 2, TotalTokens |-> 6]
  /\ \E k \in DOMAIN clients :
       /\ clients[k].op = "GetTotalSummary"
       /\ clients[k].pc = "done"
       /\ clients[k].result = MkUsage(2, 1)

\* C27: GetWeekSummary(label) returns the sum of the records recorded under
\* that label, which are those of the RecordUsage calls made with that label;
\* a step changes the summary of a label only by appending under that label;
\* a label nothing was recorded under yields the zero record
C27_WeekSummaryPerLabel ==
  [][\A label \in WeekLabels :
       /\ GetWeekSummary(tracker', label)
            = SumArgs(clients', {k \in Appended(clients') : clients'[k].weekLabel = label})
       /\ GetWeekSummary(tracker', label) # GetWeekSummary(tracker, label) =>
            \E k \in DOMAIN clients :
              /\ clients[k].pc = "append"
              /\ clients'[k].pc = "prompt"
              /\ clients[k].weekLabel = label
       /\ {k \in Appended(clients') : clients'[k].weekLabel = label} = {} =>
            GetWeekSummary(tracker', label) = ZeroUsage
       /\ \A k \in DOMAIN clients :
            (/\ clients[k].pc = "reading"
             /\ clients'[k].pc = "done"
             /\ clients[k].op = "GetWeekSummary"
             /\ clients[k].weekLabel = label) =>
              clients'[k].result = SumUsage(tracker.usageByWeek[label])]_vars

\* two records under "2024-W01", none under "unknown"; a GetWeekSummary("unknown")
\* returned the zero record after them
C27_Witness ==
  /\ clients # NoClients
  /\ Len(tracker.usageByWeek["2024-W01"]) = 2
  /\ Len(tracker.usageByWeek["unknown"]) = 0
  /\ GetWeekSummary(tracker, "2024-W01").TotalTokens > 0
  /\ \E k \in DOMAIN clients :
       /\ clients[k].op = "GetWeekSummary"
       /\ clients[k].weekLabel = "unknown"
       /\ clients[k].pc = "done"
       /\ clients[k].result = ZeroUsage
       /\ Cardinality(WritersDone) = 2

\* C28: a summary read is taken while no RecordUsage is half applied, and once
\* every call has completed the records stored are as many as the
\* RecordUsage calls and the totals are the sums of their arguments
C28_NoLostUpdateNoPartialRead ==
  [][/\ \A k \in DOMAIN clients :
          (clients[k].pc = "reading" /\ clients'[k].pc = "done") =>
            /\ tracker.writer = 0
            /\ Consistent(tracker)
            /\ clients'[k].result = SummaryRead(tracker, clients[k])
     /\ (\A k \in DOMAIN clients : clients'[k].pc = "done") =>
          /\ RecordCount(tracker') = Cardinality({k \in DOMAIN clients' :
                                                    clients'[k].op = "RecordUsage"})
          /\ GetTotalSummary(tracker')
               = SumArgs(clients', {k \in DOMAIN clients' : clients'[k].op = "RecordUsage"})
          /\ Consistent(tracker')]_vars

\* three concurrent RecordUsage calls have all completed
C28_Witness ==
  /\ clients # NoClients
  /\ Cardinality(WritersDone) = 3
  /\ RecordCount(tracker) = 3
  /\ Len(tracker.usageByWeek["2024-W01"]) = 2
  /\ GetTotalSummary(tracker).TotalTokens = 10

\* the outcome of item i as its own render result and its own transport
\* responses determine it
OwnOutcome(i) ==
  IF IsEmptyPrompt(items[i]) THEN EmptyPromptResult(i)
  ELSE IF hist[i].calls = hist[i].fails + 1
    THEN SuccessResult(i, hist[i].fails, hist[i].resp)
    ELSE ExhaustedResult(i, hist[i].fails, hist[i].err)

\* C29: when ProcessBatch has returned without cancellation, every item with a
\* non-empty prompt was attempted, whatever happened to the other items of its
\* batch and of earlier batches, it was given up only after MaxRetries + 1
\* failed calls of its own, and its outcome is the one its own prompt and its
\* own responses determine
C29_ItemsIndependent ==
  (Returned /\ ~cancelled) =>
    \A i \in Indices :
      /\ ~IsEmptyPrompt(items[i]) =>
           /\ hist[i].calls >= 1
           /\ hist[i].calls = hist[i].fails => hist[i].fails = config.MaxRetries + 1
      /\ IsEmptyPrompt(items[i]) => hist[i].calls = 0
      /\ results[i] = OwnOutcome(i)

\* batches of one item: item 0 was given up after all its calls failed, item 1
\* of the next batch was attempted and succeeded
C29_Witness ==
  /\ Returned
  /\ ~cancelled
  /\ N = 2
  /\ config.BatchSize = 1
  /\ hist[0].exit = "exhausted"
  /\ ~results[0].Success
  /\ hist[1].calls >= 1
  /\ results[1].Success

\* C30: a terminal outcome has Success exactly when it has no Error; a failed
\* one has empty Output and zero token usage; a successful one has the output
\* and the usage of its successful transport call
C30_OutcomeWellFormed ==
  \A i \in Indices :
    Terminal(i) =>
      /\ results[i].Success <=> results[i].Error = NoError
      /\ ~results[i].Success =>
           /\ results[i].Output = ""
           /\ results[i].TokenUsage = ZeroUsage
      /\ results[i].Success =>
           /\ hist[i].exit = "success"
           /\ results[i].Output = hist[i].resp.content
           /\ results[i].TokenUsage = hist[i].resp.usage

\* ProcessBatch has returned a success beside a failure after exhaustion
C30_Witness ==
  /\ Returned
  /\ N = 2
  /\ results[0].Success
  /\ results[0].TokenUsage # ZeroUsage
  /\ hist[1].exit = "exhausted"
  /\ results[1].Error \in TransportErrors

\* C31: a call of ProcessSingleWithWeek that is reported as failed has made
\* MaxRetries + 1 transport calls: the original attempt and MaxRetries retries
C31_SingleCallsOnePlusRetries ==
  (single.pc = "returned" /\ single.ret.err # NoError) =>
    single.calls = config.MaxRetries + 1

\* ---- TableFormatter.calculateSummary on its own ---------------------------
\* The outcomes handed to calculateSummary are any ProcessResult values, also
\* ones ProcessBatch does not produce (a failure that carries token usage).
Outcomes ==
  [Index : {0}, Output : {""}, Success : BOOLEAN, Error : {NoError},
   Retries : 0..MaxRetriesSeen, TokenUsage : {ZeroUsage, MkUsage(2, 1)}]

CountsTokensAlways(result) == TRUE

\* if result.Success { summary.SuccessCount++; summary.TotalTokens += ... }
CountsTokens(result) == result.Success

NewSummaryKeepsCounts(rs) == [out.summary EXCEPT !.TotalItems = Cardinality(DOMAIN rs)]

\* summary := ResultSummary{TotalItems: len(results)}: a local of the call,
\* every other field zero
NewSummary(rs) ==
  [TotalItems |-> Cardinality(DOMAIN rs), SuccessCount |-> 0, FailureCount |-> 0,
   TotalRetries |-> 0, TotalTokens |-> 0, AvgTokensPerItem |-> 0]

InitSummary ==
  /\ \E n \in 0..MaxOutcomes : results \in [0..(n - 1) -> Outcomes]
  /\ items = [i \in DOMAIN results |-> "prompt"]
  /\ worker = [i \in DOMAIN results |-> DoneWorker]
  /\ hist = [i \in DOMAIN results |-> NoHistory]
  /\ passed = [BatchSize |-> 0, MaxConcurrent |-> 0, RateLimitPerMin |-> 0,
               MaxRetries |-> 0, InitialRetryDelay |-> 0, MaxRetryDelay |-> 0,
               Timeout |-> 0, ExponentialBackoff |-> TRUE]
  /\ config = NewAIProcessor(passed)
  /\ tokens = 0
  /\ cancelled = FALSE
  /\ semaphore = 0
  /\ wg = 0
  /\ main = [pc |-> "none", batchStart |-> 0, i |-> 0]
  /\ rl = NoLimiter
  /\ arg = NoCall
  /\ out = [fn |-> "calculateSummary", pc |-> "idle", idx |-> 0,
            summary |-> [TotalItems |-> 0, SuccessCount |-> 0, FailureCount |-> 0,
                         TotalRetries |-> 0, TotalTokens |-> 0, AvgTokensPerItem |-> 0],
            returned |-> <<>>]
  /\ tracker = NewTokenTracker
  /\ single = NoSingle
  /\ clients = NoClients

\* A call tf.calculateSummary(results) is followed statement by statement:
\* out.summary is its local summary, out.idx the position of the range loop,
\* out.returned the summaries returned by the calls made so far. The
\* durations and the success rate are left out.
CalculateStart ==
  /\ out.pc \in {"idle", "returned"}
  /\ Len(out.returned) < MaxRecomputations
  /\ out' = [out EXCEPT !.pc = "loop", !.idx = 0, !.summary = NewSummary(results)]
  /\ UNCHANGED <<arg, passed, config, tokens, rl, batch>>

\* one iteration of for _, result := range results; result is a copy
CalculateStep ==
  /\ out.pc = "loop"
  /\ out.idx < Cardinality(DOMAIN results)
  /\ LET result == results[out.idx]
     IN  out' = [out EXCEPT
                   !.idx = @ + 1,
                   !.summary.SuccessCount = IF result.Success THEN @ + 1 ELSE @,
                   !.summary.TotalTokens = IF CountsTokens(result)
                                             THEN @ + result.TokenUsage.TotalTokens ELSE @,
                   !.summary.FailureCount = IF result.Success THEN @ ELSE @ + 1,
                   !.summary.TotalRetries = @ + result.Retries]
  /\ UNCHANGED <<arg, passed, config, tokens, rl, batch>>

\* after the loop: if summary.SuccessCount > 0 { AvgTokensPerItem = ... };
\* return summary
CalculateReturn ==
  /\ out.pc = "loop"
  /\ out.idx = Cardinality(DOMAIN results)
  /\ LET summary == [out.summary EXCEPT
                       !.AvgTokensPerItem =
                          IF out.summary.SuccessCount > 0
                            THEN out.summary.TotalTokens \div out.summary.SuccessCount
                            ELSE @]
     IN  out' = [out EXCEPT !.pc = "returned", !.summary = summary,
                            !.returned = Append(@, summary)]
  /\ UNCHANGED <<arg, passed, config, tokens, rl, batch>>

NextSummary ==
  \/ CalculateStart
  \/ CalculateStep
  \/ CalculateReturn

SpecSummary == InitSummary /\ [][NextSummary]_vars

\* the sum of Retries, and of the TotalTokens of the successes, over an array
RECURSIVE SumRetries(_, _)
SumRetries(rs, n) == IF n = 0 THEN 0 ELSE rs[n - 1].Retries + SumRetries(rs, n - 1)
RECURSIVE SumSuccessTokens(_, _)
SumSuccessTokens(rs, n) ==
  IF n = 0 THEN 0
  ELSE (IF rs[n - 1].Success THEN rs[n - 1].TokenUsage.TotalTokens ELSE 0)
         + SumSuccessTokens(rs, n - 1)

\* C32: no statement of calculateSummary changes the outcomes or any state
\* but the call's own local summary; every call on the same array returns
\* the summary the calls before it returned; and in every returned summary
\* SuccessCount + FailureCount = TotalItems, TotalRetries is the sum of the
\* Retries and TotalTokens the sum over the successful outcomes only
C32_SummaryDeterministic ==
  [][/\ results' = results
     /\ UNCHANGED <<passed, config, tokens, rl, tracker, single, clients, items, cancelled>>
     /\ out'.returned # out.returned =>
          LET summary == out'.returned[Len(out'.returned)]
          IN  /\ \A k \in DOMAIN out.returned : out.returned[k] = summary
              /\ summary.TotalItems = Cardinality(DOMAIN results)
              /\ summary.SuccessCount + summary.FailureCount = summary.TotalItems
              /\ summary.SuccessCount =
                   Cardinality({i \in DOMAIN results : results[i].Success})
              /\ summary.TotalRetries = SumRetries(results, Cardinality(DOMAIN results))
              /\ summary.TotalTokens =
                   SumSuccessTokens(results, Cardinality(DOMAIN results))]_vars

\* the summary was computed twice on an array with a success and a failure
\* that carries token usage, which is not counted
C32_Witness ==
  /\ out.fn = "calculateSummary"
  /\ out.pc = "returned"
  /\ Len(out.returned) = 2
  /\ \E i, j \in DOMAIN results :
       /\ results[i].Success
       /\ results[i].TokenUsage = MkUsage(2, 1)
       /\ ~results[j].Success
       /\ results[j].TokenUsage = MkUsage(2, 1)
       /\ results[j].Retries = 2
  /\ out.returned[2].TotalTokens = 3
  /\ out.returned[2].TotalRetries >= 2

\* ---- one item under every class of failure --------------------------------
\* ProcessBatch with one item whose prompt is not empty; callOpenAI can fail
\* through each of its error returns
InitFailures ==
  /\ items = [i \in {0} |-> "prompt"]
  /\ \E r \in 1..MaxRate, m \in 0..MaxRetriesArg :
       passed = [BatchSize |-> 0, MaxConcurrent |-> 0, RateLimitPerMin |-> r,
                 MaxRetries |-> m, InitialRetryDelay |-> 0, MaxRetryDelay |-> 0,
                 Timeout |-> 0, ExponentialBackoff |-> TRUE]
  /\ config = NewAIProcessor(passed)
  /\ results = [i \in DOMAIN items |-> ZeroResult]
  /\ cancelled = FALSE
  /\ tokens = config.RateLimitPerMin
  /\ semaphore = 0
  /\ wg = 0
  /\ main = [pc |-> "batch", batchStart |-> 0, i |-> 0]
  /\ worker = [i \in DOMAIN items |-> IdleWorker]
  /\ hist = [i \in DOMAIN items |-> NoHistory]
  /\ rl = NoLimiter
  /\ arg = NoCall
  /\ out = NoCall
  /\ tracker = NewTokenTracker
  /\ single = NoSingle
  /\ clients = NoClients

CallFailsAnyClass(i) == CallFailsWith(i, FailureClasses)

NextFailures ==
  \/ NextBatch
  \/ SpawnWorker
  \/ BatchBarrier
  \/ Summary
  \/ \E i \in Indices : AcquireSlot(i)
  \/ \E i \in Indices : CheckContext(i)
  \/ \E i \in Indices : LoopTop(i)
  \/ \E i \in Indices : RateWait(i)
  \/ \E i \in Indices : CallSucceeds(i)
  \/ \E i \in Indices : CallFailsAnyClass(i)
  \/ \E i \in Indices : BackoffElapsed(i)
  \/ \E i \in Indices : BackoffCancelled(i)
  \/ \E i \in Indices : ReleaseSlot(i)
  \/ \E i \in Indices : WgDone(i)
  \/ Cancel
  \/ Refill

SpecFailures == InitFailures /\ [][NextFailures]_vars

\* C33: whatever error callOpenAI returns, a failure of an attempt that is not
\* the last permitted one puts the item into the backoff wait and ends
\* nothing; without cancellation the wait is followed by the next pass of the
\* loop, which goes on to the rate limiter and the next call; an item is given
\* up without cancellation only after MaxRetries + 1 failed calls
C33_EveryFailureRetried ==
  [][\A i \in Indices :
       /\ (worker[i].pc = "calling" /\ hist'[i].fails = hist[i].fails + 1
           /\ worker[i].attempt < config.MaxRetries) =>
            /\ hist'[i].err \in FailureClasses \cup {RequestFailedCanceled}
            /\ worker'[i].pc = "backoff"
            /\ worker'[i].lastError = hist'[i].err
            /\ results'[i] = results[i]
       /\ (worker[i].pc = "backoff" /\ worker'[i].pc # "backoff" /\ ~cancelled) =>
            /\ worker'[i].pc = "loop"
            /\ worker'[i].attempt = worker[i].attempt + 1
       /\ (worker[i].pc = "loop" /\ worker'[i].pc # "loop" /\ ~cancelled
           /\ worker[i].attempt <= config.MaxRetries) =>
            worker'[i].pc = "ratewait"
       /\ (hist'[i].exit = "exhausted" /\ ~cancelled') =>
            hist'[i].fails = config.MaxRetries + 1]_vars

\* an item whose calls returned an error twice, last "no choices in response",
\* and whose third call succeeded
C33_Witness ==
  /\ N = 1
  /\ Terminal(0)
  /\ ~cancelled
  /\ results[0].Success
  /\ hist[0].fails = 2
  /\ hist[0].waits = 2
  /\ hist[0].err = NoChoices

\* C34: once the context is cancelled, ProcessSingleWithWeek takes no token
\* from the rate limiter, waits out no backoff delay and starts no further
\* transport call
C34_SingleObservesCancel ==
  [][cancelled =>
       /\ ~(single.pc = "wait" /\ single'.pc = "loop")
       /\ ~(single.pc = "sleep" /\ single'.pc = "calling")
       /\ ~(single.pc # "sleep" /\ single'.pc = "sleep")
       /\ ~(single.pc # "calling" /\ single'.pc = "calling")]_vars

\* ---- runAutomatedPipeline: the loop over the weeks ------------------------
\* The collaborators are given by their outcome for each week: the error of
\* silverLayer.Transform and the error of goldLayer.GenerateReportsFromFile.
NoData == "no data found in database"
SilverFailed == "silver layer failed for week"
ReadSilverFailed == "failed to read silver output"
ParseSilverFailed == "failed to parse silver output"
InvalidSilverFormat == "invalid silver output format: missing 'kids' array"
SaveReportsFailed == "failed to save reports"
\* the gold layer failing to supply the items of a week
SupplyFailures == {ReadSilverFailed, ParseSilverFailed, InvalidSilverFormat}

WeekOutcomes ==
  {[silver |-> SilverFailed, gold |-> NoError]}
    \cup [silver : {NoError},
          gold : {NoError, SaveReportsFailed} \cup SupplyFailures]

InitPipeline ==
  /\ \E n \in 0..MaxWeeks : \E weeks \in [1..n -> WeekOutcomes] :
       arg = [fn |-> "runAutomatedPipeline", weeks |-> weeks]
  /\ out = [fn |-> "runAutomatedPipeline", pc |-> "start", week |-> 0, skipped |-> {},
            completed |-> FALSE, ret |-> NoError]
  /\ passed = [BatchSize |-> 0, MaxConcurrent |-> 0, RateLimitPerMin |-> 0,
               MaxRetries |-> 0, InitialRetryDelay |-> 0, MaxRetryDelay |-> 0,
               Timeout |-> 0, ExponentialBackoff |-> TRUE]
  /\ config = NewAIProcessor(passed)
  /\ tokens = 0
  /\ items = [i \in {} |-> ""]
  /\ results = [i \in {} |-> ZeroResult]
  /\ cancelled = FALSE
  /\ semaphore = 0
  /\ wg = 0
  /\ main = [pc |-> "none", batchStart |-> 0, i |-> 0]
  /\ worker = [i \in {} |-> IdleWorker]
  /\ hist = [i \in {} |-> NoHistory]
  /\ rl = NoLimiter
  /\ tracker = NewTokenTracker
  /\ single = NoSingle
  /\ clients = NoClients

\* if len(weeks) == 0 { return fmt.Errorf("no data found in database") }
PipelineStart ==
  /\ out.pc = "start"
  /\ out' = IF Len(arg.weeks) = 0
              THEN [out EXCEPT !.pc = "returned", !.ret = NoData]
              ELSE [out EXCEPT !.pc = "weeks", !.week = 1]
  /\ UNCHANGED <<arg, passed, config, tokens, rl, batch>>

\* if err != nil { logger.Errorf("Gold layer failed ..."); continue }
SkipsWeek(err) == err # NoError

\* one iteration of `for i, week := range weeks`: a failure of the silver
\* layer is returned, a failure of the gold layer logged and the week skipped
ProcessWeek ==
  /\ out.pc = "weeks"
  /\ out.week <= Len(arg.weeks)
  /\ LET week == arg.weeks[out.week]
     IN  out' = IF week.silver # NoError
                  THEN [out EXCEPT !.pc = "returned", !.ret = week.silver]
                  ELSE IF SkipsWeek(week.gold)
                    THEN [out EXCEPT !.week = out.week + 1,
                                     !.skipped = out.skipped \cup {out.week}]
                    ELSE [out EXCEPT !.week = out.week + 1]
  /\ UNCHANGED <<arg, passed, config, tokens, rl, batch>>

\* after the loop: "AUTOMATED PIPELINE COMPLETED SUCCESSFULLY", return nil
PipelineFinish ==
  /\ out.pc = "weeks"
  /\ out.week > Len(arg.weeks)
  /\ out' = [out EXCEPT !.pc = "returned", !.completed = TRUE, !.ret = NoError]
  /\ UNCHANGED <<arg, passed, config, tokens, rl, batch>>

NextPipeline ==
  \/ PipelineStart
  \/ ProcessWeek
  \/ PipelineFinish

SpecPipeline == InitPipeline /\ [][NextPipeline]_vars

\* C35: when the gold layer failed to supply the items of a week the loop
\* came to, the run returns an error and does not report completion
C35_SupplyFailureAborts ==
  LET returned == out.fn = "runAutomatedPipeline" /\ out.pc = "returned"
      \* the weeks the loop has been through
      visited == 1..(IF out.week > Len(arg.weeks) THEN Len(arg.weeks) ELSE out.week)
  IN  (returned /\ \E w \in visited : arg.weeks[w].silver = NoError
                                       /\ arg.weeks[w].gold \in SupplyFailures) =>
        /\ out.ret # NoError
        /\ ~out.completed

\* ---- ProcessBatch with an empty item list --------------------------------
\* C37: ProcessBatch called with an empty item list starts no worker (no slot
\* taken, nothing to wait for), consumes no rate-limiter token, gets through
\* its summary statistics without a division-by-zero fault and returns an
\* empty result array
C37_EmptyListReturnsEmpty ==
  N = 0 =>
    /\ semaphore = 0
    /\ wg = 0
    /\ tokens >= config.RateLimitPerMin
    /\ DOMAIN results = {}
    /\ main.pc # "panicked"

\* ---- ProcessBatch under fair scheduling ----------------------------------
\* the goroutine of ProcessBatch itself
MainStep == NextBatch \/ SpawnWorker \/ BatchBarrier \/ Summary

\* the goroutine of item i: the runtime schedules it, its transport call
\* returns, its backoff timer fires
WorkerStep(i) ==
  /\ i \in Indices
  /\ \/ AcquireSlot(i)
     \/ CheckContext(i)
     \/ LoopTop(i)
     \/ RateWait(i)
     \/ CallSucceeds(i)
     \/ CallFails(i)
     \/ BackoffElapsed(i)
     \/ BackoffCancelled(i)
     \/ ReleaseSlot(i)
     \/ WgDone(i)

\* Every goroutine that can run does run, and the refill ticker keeps ticking;
\* the cancellation of the context is left to the environment.
SpecLive ==
  /\ Init
  /\ [][Next]_vars
  /\ WF_vars(MainStep)
  /\ \A i \in 0..(MaxItems - 1) : WF_vars(WorkerStep(i))
  /\ WF_vars(Refill)

\* C36: every ProcessBatch call eventually returns, cancelled or not, with
\* every worker slot released and no goroutine left to wait for
C36_EventuallyReturns == <>(Returned /\ semaphore = 0 /\ wg = 0)

\* ---- NewAIProcessor on its own -------------------------------------------
\* The Config as passed: every numeric setting zero, positive or negative
\* (durations in seconds).
Settings == (0 - MaxSetting)..MaxSetting

InitConfig ==
  /\ passed \in [BatchSize : Settings, MaxConcurrent : Settings, RateLimitPerMin : Settings,
                 MaxRetries : Settings, InitialRetryDelay : Settings,
                 MaxRetryDelay : Settings, Timeout : Settings,
                 ExponentialBackoff : {TRUE}]
  /\ config = passed
  /\ out = [fn |-> "NewAIProcessor", pc |-> "new"]
  /\ arg = NoCall
  /\ rl = NoLimiter
  /\ tokens = 0
  /\ items = [i \in {} |-> ""]
  /\ results = [i \in {} |-> ZeroResult]
  /\ cancelled = FALSE
  /\ semaphore = 0
  /\ wg = 0
  /\ main = [pc |-> "none", batchStart |-> 0, i |-> 0]
  /\ worker = [i \in {} |-> IdleWorker]
  /\ hist = [i \in {} |-> NoHistory]
  /\ tracker = NewTokenTracker
  /\ single = NoSingle
  /\ clients = NoClients

\* NewAIProcessor(config, logger): the defaults, then the AIProcessor literal
\* with NewRateLimiter(config.RateLimitPerMin, logger), whose make(chan) panics
\* on a negative capacity, and NewTokenTracker
NewProcessor ==
  /\ out.fn = "NewAIProcessor"
  /\ out.pc = "new"
  /\ LET c == NewAIProcessor(passed)
         limiter == NewRateLimiter(c.RateLimitPerMin, FALSE)
     IN  /\ config' = c
         /\ rl' = limiter
         /\ tokens' = InitialTokens(c.RateLimitPerMin)
         /\ out' = [out EXCEPT !.pc = IF limiter.pc = "panicked" THEN "panicked" ELSE "returned"]
  /\ tracker' = NewTokenTracker
  /\ UNCHANGED <<passed, arg, items, results, cancelled, semaphore, wg, main, worker, hist,
                 single, clients>>

SpecConfig == InitConfig /\ [][NewProcessor]_vars

Constructed == out.fn = "NewAIProcessor" /\ out.pc # "new"

\* the setting the processor holds for a passed value v whose default is d
Held(v, d) == IF v = 0 THEN d ELSE v

\* the Config the claim describes for the Config c as passed
Described(c) ==
  [BatchSize |-> Held(c.BatchSize, 10), MaxConcurrent |-> Held(c.MaxConcurrent, 5),
   RateLimitPerMin |-> Held(c.RateLimitPerMin, 60), MaxRetries |-> Held(c.MaxRetries, 3),
   InitialRetryDelay |-> Held(c.InitialRetryDelay, 2),
   MaxRetryDelay |-> Held(c.MaxRetryDelay, 10), Timeout |-> Held(c.Timeout, 60),
   ExponentialBackoff |-> c.ExponentialBackoff]

\* C38: once NewAIProcessor has applied its defaults, every setting passed as
\* 0 holds its default (MaxRetries 3, InitialRetryDelay 2s, MaxRetryDelay 10s,
\* Timeout 60s, BatchSize 10, MaxConcurrent 5, RateLimitPerMin 60) and every
\* other setting, negative ones included, is as passed; a passed MaxRetries of
\* 0 then behaves as 3: the batch loop admits the attempts 0..3 and the
\* single-item loop the attempts 0..2, as for a passed 3
C38_DefaultsZeroOnly ==
  Constructed =>
    /\ config = Described(passed)
    /\ passed.MaxRetries = 0 =>
         /\ config = Described([passed EXCEPT !.MaxRetries = 3])
         /\ LoopCondition(3) /\ ~LoopCondition(4)
         /\ SingleLoopCondition(2) /\ ~SingleLoopCondition(3)

\* a processor built from a negative MaxRetries, kept, and a zero BatchSize,
\* defaulted
C38_Witness ==
  /\ Constructed
  /\ out.pc = "returned"
  /\ passed.MaxRetries < 0
  /\ config.MaxRetries = passed.MaxRetries
  /\ passed.BatchSize = 0
  /\ config.BatchSize = DefaultBatchSize
  /\ passed.MaxConcurrent < 0
  /\ config.MaxConcurrent = passed.MaxConcurrent

====
